---- MODULE Spec2Model ----
(***************************************************************************)
(* Quota management and challenge generation workflow of the backend:      *)
(* routes/challenge.py, routes/webhooks.py, database/db.py and the         *)
(* alternate copy of the workflow kept in database/models.py.              *)
(*                                                                         *)
(* Every storage call (a pymongo call on challenge_quotas or challenges)   *)
(* is one atomic step; requests of different workers interleave between    *)
(* their storage calls.  A storage call may raise.                         *)
(***************************************************************************)
EXTENDS Integers, Sequences, FiniteSets, TLC

\* ---------------------------------------------------------------- bounds
MaxTime == 36          \* the clock stops at MaxTime (hours)
TickStep == 12         \* hours the clock advances in one Tick
MaxRequests == 2       \* requests served in one behaviour
MaxQuotaIds == 3       \* quota documents ever inserted
MaxChallenges == 2     \* challenge documents ever inserted
MaxTextLen == 3        \* pieces of the text the model generates

\* ------------------------------------------------------ program constants
DefaultQuota == 50     \* "quota_remaining": 50
ResetHours == 24       \* timedelta(hours=24)

\* The workers that serve requests.
Procs == {1, 2}
Users == {"u1", "u2"}
Difficulties == {"easy"}
ChallengeKinds == {"model", "fallback"}

NoTime == 0 - 1
NoId == 0

\* The value None of a quota lookup.
NoQuota ==
    [id |-> NoId, user_id |-> "none", quota_remaining |-> 0,
     last_reset_date |-> NoTime, created_at |-> NoTime]

ApiOps == {"generate", "get_quota", "force_reset"}
HookOps == {"user_created", "user_deleted"}
\* "generate" is generate_challenge of routes/challenge.py, "generate_alt" the
\* copy of it in database/models.py.
GenOps == {"generate", "generate_alt"}
Ops == ApiOps \cup HookOps

VARIABLES
    quotas,          \* the challenge_quotas collection: a set of documents
    challenges,      \* the challenges collection: a set of documents
    now,             \* datetime.now(), in hours
    nextQid,         \* next _id of challenge_quotas
    nextCid,         \* next _id of challenges
    pc,              \* position of each request handler
    op,              \* the handler a request runs
    user,            \* user_id resolved for the request
    difficulty,      \* request.difficulty
    quota,           \* the handler's local variable quota
    challenge_data,  \* the handler's local variable challenge_data
    new_challenge,   \* _id of the handler's local new_challenge
    status,          \* HTTP status of the response
    detail,          \* detail / status text of the response
    trace,           \* calls the current run has made, in order
    requests,        \* requests that have arrived so far
    q_before,        \* stored quota_remaining of the user when the run began
    auth,            \* outcome of identity resolution / signature verification
    challenge_id,    \* path parameter challenge_id of delete_challenge
    deleted,         \* deleted_quotas / deleted_challenges of the webhook answer
    gen_pc,          \* position of generate_challenge_with_ai
    response,        \* what the inference endpoint answers
    generated,       \* value generate_challenge_with_ai returns
    posts            \* requests.post calls made

generator == <<gen_pc, response, generated, posts>>

vars == <<quotas, challenges, now, nextQid, nextCid, pc, op, user, difficulty,
          quota, challenge_data, new_challenge, status, detail, trace, requests,
          q_before, auth, challenge_id, deleted, generator>>

store == <<quotas, challenges, nextQid, nextCid>>

\* ------------------------------------------------------- storage layer

\* find_one({"user_id": user_id}) on challenge_quotas
FindQuota(u) ==
    IF \E r \in quotas : r.user_id = u
    THEN CHOOSE r \in quotas : r.user_id = u
    ELSE NoQuota

\* find_one({"_id": id}) on challenge_quotas
QuotaById(id) ==
    IF \E r \in quotas : r.id = id
    THEN CHOOSE r \in quotas : r.id = id
    ELSE NoQuota

DuplicateKey_NoUniqueIndex(u) == FALSE

\* The unique index on user_id rejects a second document of a user.
DuplicateKey(u) == \E r \in quotas : r.user_id = u

NewQuotaDoc_StaleResetDate(u) ==
    [id |-> nextQid, user_id |-> u, quota_remaining |-> DefaultQuota,
     last_reset_date |-> 0, created_at |-> now]

\* quota_doc of create_challenge_quota
NewQuotaDoc(u) ==
    [id |-> nextQid, user_id |-> u, quota_remaining |-> DefaultQuota,
     last_reset_date |-> now, created_at |-> now]

ResetDue_Always(q) == q.last_reset_date <= now

\* now - last_reset > timedelta(hours=24)
ResetDue(q) == now - q.last_reset_date > ResetHours

ResetDoc_KeepsRemaining(r) == [r EXCEPT !.last_reset_date = now]

\* {"$set": {"quota_remaining": 50, "last_reset_date": now}}
ResetDoc(r) == [r EXCEPT !.quota_remaining = DefaultQuota, !.last_reset_date = now]

DecrementDoc_ByTwo(r) == [r EXCEPT !.quota_remaining = r.quota_remaining - 2]

\* {"$inc": {"quota_remaining": -1}}
DecrementDoc(r) == [r EXCEPT !.quota_remaining = r.quota_remaining - 1]

QuotaExhausted_StrictlyNegative(q) == q.quota_remaining < 0

\* quota.get("quota_remaining", 0) <= 0
QuotaExhausted(q) == q.quota_remaining <= 0

NewChallengeDoc_FallbackIsEasy(p) ==
    [id |-> nextCid,
     difficulty |-> IF challenge_data[p] = "fallback" THEN "easy" ELSE difficulty[p],
     created_by |-> user[p], kind |-> challenge_data[p]]

\* challenge_doc of create_challenge
NewChallengeDoc(p) ==
    [id |-> nextCid, difficulty |-> difficulty[p], created_by |-> user[p],
     kind |-> challenge_data[p]]

\* --------------------------------------------------- generation adapter

\* The text the model generates, as a sequence of pieces: whitespace, the
\* chat artifact "[/INST]", prose, a brace, a JSON array, or the text between
\* the braces of a JSON object.
BodyTokens ==
    {"b_good", "b_comma", "b_broken", "b_missing", "b_opts3", "b_opts_str",
     "b_ans4", "b_ans_str", "b_ans_true"}
Tokens == {"ws", "inst", "x", "{", "}", "arr"} \cup BodyTokens

\* A JSON value of a field: its Python type after json.loads and its size or
\* number.
Absent == [type |-> "absent", val |-> 0]
JsonValue(t, v) == [type |-> t, val |-> v]

Obj(title, options, answer, explanation) ==
    [type |-> "object", title |-> title, options |-> options,
     correct_answer_id |-> answer, explanation |-> explanation]

NoChallenge == [type |-> "none", title |-> "absent", options |-> Absent,
                correct_answer_id |-> Absent, explanation |-> "absent"]

\* get_fallback_challenge()
FallbackChallenge ==
    Obj("Basic Python List Operation", JsonValue("list", 4), JsonValue("int", 0),
        "In Python, append() is the correct method")

\* The dict json.loads builds from the text between the braces.
BodyValue(b) ==
    CASE b = "b_good"     -> Obj("model title", JsonValue("list", 4), JsonValue("int", 3), "model explanation")
      [] b = "b_missing"  -> Obj("model title", JsonValue("list", 4), JsonValue("int", 3), "absent")
      [] b = "b_opts3"    -> Obj("model title", JsonValue("list", 3), JsonValue("int", 3), "model explanation")
      [] b = "b_opts_str" -> Obj("model title", JsonValue("str", 4), JsonValue("int", 3), "model explanation")
      [] b = "b_ans4"     -> Obj("model title", JsonValue("list", 4), JsonValue("int", 4), "model explanation")
      [] b = "b_ans_str"  -> Obj("model title", JsonValue("list", 4), JsonValue("str", 1), "model explanation")
      [] b = "b_ans_true" -> Obj("model title", JsonValue("list", 4), JsonValue("bool", 1), "model explanation")
      [] OTHER            -> NoChallenge

\* Bodies json.loads accepts: "b_comma" ends in a trailing comma and
\* "b_broken" is no JSON at all.
WellFormedBodies == BodyTokens \ {"b_comma", "b_broken"}

EmptyObject == Obj("absent", Absent, Absent, "absent")
\* json.loads of '["title", "options", "correct_answer_id", "explanation"]'
ArrayValue == [type |-> "list", title |-> "title", options |-> JsonValue("str", 7),
               correct_answer_id |-> JsonValue("str", 17),
               explanation |-> "explanation"]

\* The outcome of a stage: the exception it raises, or "none" and its value.
Raise(e) == [exc |-> e, value |-> NoChallenge, text |-> <<>>]
Value(v) == [exc |-> "none", value |-> v, text |-> <<>>]
Text(t) == [exc |-> "none", value |-> NoChallenge, text |-> t]

\* json.loads(s): whitespace between the pieces is skipped.
JsonLoads(s) ==
    LET u == SelectSeq(s, LAMBDA k : k # "ws")
    IN  IF Len(u) = 3 /\ u[1] = "{" /\ u[3] = "}" /\ u[2] \in WellFormedBodies
        THEN Value(BodyValue(u[2]))
        ELSE IF u = <<"{", "}">>
        THEN Value(EmptyObject)
        ELSE IF u = <<"arr">>
        THEN Value(ArrayValue)
        ELSE Raise("JSONDecodeError")

\* str.strip()
RECURSIVE LStrip(_)
LStrip(s) == IF s # <<>> /\ Head(s) = "ws" THEN LStrip(Tail(s)) ELSE s
RECURSIVE RStrip(_)
RStrip(s) ==
    IF s # <<>> /\ s[Len(s)] = "ws" THEN RStrip(SubSeq(s, 1, Len(s) - 1)) ELSE s
Strip(s) == RStrip(LStrip(s))

\* str.find(c) and str.rfind(c): 0-based, -1 when c does not occur
Find(s, c) ==
    IF \E i \in DOMAIN s : s[i] = c
    THEN (CHOOSE i \in DOMAIN s : s[i] = c /\ \A j \in 1..(i - 1) : s[j] # c) - 1
    ELSE 0 - 1
RFind(s, c) ==
    IF \E i \in DOMAIN s : s[i] = c
    THEN (CHOOSE i \in DOMAIN s : s[i] = c /\ \A j \in (i + 1)..Len(s) : s[j] # c) - 1
    ELSE 0 - 1

\* s[a:b]
Slice(s, a, b) == SubSeq(s, a + 1, b)

\* json_str.replace('\n', ' ').replace('\r', '').replace(',}', '}').replace(',]', ']')
Repair(s) == [i \in DOMAIN s |-> IF s[i] = "b_comma" THEN "b_good" ELSE s[i]]

\* What the inference endpoint does with the one request.
TextOutcomes == {"list", "dict"}
FailureOutcomes ==
    {"network_error", "http_error", "not_json", "empty_list", "scalar",
     "list_of_strings", "text_null"}

\* requests.post, raise_for_status, response.json() and the extraction of
\* generated_text, followed by the clean-up of chat artifacts.
GeneratedText(r) ==
    CASE r.outcome \in {"network_error", "http_error", "not_json"}
                                    -> Raise("RequestException")
      [] r.outcome \in {"empty_list", "scalar"} -> Raise("ValueError")
      [] r.outcome \in {"list_of_strings", "text_null"} -> Raise("AttributeError")
      [] OTHER ->
           LET stripped == Strip(r.text)
           IN  IF stripped # <<>> /\ Head(stripped) = "inst"
               THEN Text(Strip(Tail(stripped)))
               ELSE Text(stripped)

\* The JSON between the first '{' and the last '}', or the whole text.
ExtractJson(generated_text) ==
    LET start_idx == Find(generated_text, "{")
        end_idx == RFind(generated_text, "}") + 1
    IN  IF start_idx # 0 - 1 /\ end_idx > start_idx
        THEN LET json_str == Slice(generated_text, start_idx, end_idx)
             IN  IF JsonLoads(json_str).exc = "none"
                 THEN JsonLoads(json_str)
                 ELSE JsonLoads(Repair(json_str))
        ELSE JsonLoads(generated_text)

\* isinstance(x, int): bool is a subclass of int.
IsInstanceInt(x) == x.type \in {"int", "bool"}

\* The checks on challenge_data.
Validate(challenge) ==
    IF challenge.type = "list"
    THEN Raise("TypeError")
    ELSE IF \/ challenge.title = "absent"
            \/ challenge.options = Absent
            \/ challenge.correct_answer_id = Absent
            \/ challenge.explanation = "absent"
    THEN Raise("ValueError")
    ELSE IF challenge.options.type # "list" \/ challenge.options.val # 4
    THEN Raise("ValueError")
    ELSE IF \/ ~IsInstanceInt(challenge.correct_answer_id)
            \/ ~(0 <= challenge.correct_answer_id.val
                 /\ challenge.correct_answer_id.val <= 3)
    THEN Raise("ValueError")
    ELSE Value(challenge)

\* The exceptions the three except clauses catch.
Handled ==
    {"RequestException", "JSONDecodeError", "ValueError", "AttributeError",
     "TypeError"}

\* The body of the try block.
TryBody(r) ==
    LET t == GeneratedText(r)
    IN  IF t.exc # "none" THEN t
        ELSE LET j == ExtractJson(t.text)
             IN  IF j.exc # "none" THEN j ELSE Validate(j.value)

\* generate_challenge_with_ai: the value returned, or the exception raised.
GenerateChallengeWithAi(r) ==
    LET body == TryBody(r)
    IN  IF body.exc = "none" THEN body
        ELSE IF body.exc \in Handled THEN Value(FallbackChallenge)
        ELSE body

\* ---------------------------------------------------------------- Init

InitQuotaValues == {0, 1}

\* deleted_quotas and deleted_challenges of an answer that carries neither
NoneDeleted == [deleted_quotas |-> 0, deleted_challenges |-> 0]

\* No call of generate_challenge_with_ai is being followed.
NoResponse == [outcome |-> "none", text |-> <<>>]
GeneratorOff ==
    /\ gen_pc = "off"
    /\ response = NoResponse
    /\ generated = Value(NoChallenge)
    /\ posts = 0

\* The collections as earlier requests left them: u1 has no document, or one
\* document last reset ResetHours or ResetHours - TickStep hours ago; u2 has
\* none; the unique index holds.
Init ==
    /\ now = ResetHours
    /\ \E present \in BOOLEAN, q \in InitQuotaValues, t \in {0, TickStep} :
          /\ quotas = IF present
                      THEN {[id |-> 1, user_id |-> "u1", quota_remaining |-> q,
                             last_reset_date |-> t, created_at |-> 0]}
                      ELSE {}
          /\ nextQid = IF present THEN 2 ELSE 1
          /\ (~present => q = 0 /\ t = 0)
    /\ challenges = {}
    /\ nextCid = 1
    /\ requests = 0
    /\ pc = [p \in Procs |-> "idle"]
    /\ op = [p \in Procs |-> "none"]
    /\ user = [p \in Procs |-> "none"]
    /\ difficulty = [p \in Procs |-> "none"]
    /\ quota = [p \in Procs |-> NoQuota]
    /\ challenge_data = [p \in Procs |-> "none"]
    /\ new_challenge = [p \in Procs |-> NoId]
    /\ status = [p \in Procs |-> 0]
    /\ detail = [p \in Procs |-> "none"]
    /\ trace = [p \in Procs |-> <<>>]
    /\ q_before = [p \in Procs |-> {}]
    /\ auth = [p \in Procs |-> "none"]
    /\ challenge_id = [p \in Procs |-> NoId]
    /\ deleted = [p \in Procs |-> NoneDeleted]
    /\ GeneratorOff

\* -------------------------------------------------------------- helpers

\* The handler returns or raises: the response is fixed.
Respond(p, code, text) ==
    /\ pc' = [pc EXCEPT ![p] = "done"]
    /\ status' = [status EXCEPT ![p] = code]
    /\ detail' = [detail EXCEPT ![p] = text]

Goto(p, label) ==
    /\ pc' = [pc EXCEPT ![p] = label]
    /\ UNCHANGED <<status, detail>>

Log(p, event) == trace' = [trace EXCEPT ![p] = Append(@, event)]

\* ------------------------------------------------------------- actions

Tick ==
    /\ now + TickStep <= MaxTime
    /\ now' = now + TickStep
    /\ UNCHANGED <<store, pc, op, user, difficulty, quota, challenge_data,
                   new_challenge, status, detail, trace, requests, q_before,
                   auth, challenge_id, deleted, generator>>

\* authenticate_and_get_user_details raises HTTPException(401) when the caller
\* cannot be resolved.
UnauthenticatedStatus == 401

RaisedHttp_AlwaysGeneric(o, code) == 400

\* What the handler's except clauses make of an HTTPException raised inside
\* its try block: get_quota of routes/challenge.py has no
\* "except HTTPException: raise" and reports it as 400.
RaisedHttp(o, code) == IF o = "get_quota" THEN 400 ELSE code

\* First label of a handler after the caller has been resolved / verified.
Entry(o) ==
    CASE o \in GenOps -> "fetch"
      [] o = "get_quota" -> "fetch"
      [] o = "force_reset" -> "upsert"
      [] o = "user_created" -> "wh_find"
      [] o = "user_deleted" -> "wh_del_quota"

\* A request of kind o arrives for user u with difficulty d: the caller is
\* resolved (API routes) or the payload is verified (webhook), ok telling
\* whether that succeeds, and the handler reaches its first storage call.
Arrive(p, o, u, d, ok) ==
    /\ pc[p] = "idle"
    /\ \A q \in Procs : q < p => pc[q] # "idle"   \* the first free worker takes it
    /\ requests < MaxRequests
    /\ requests' = requests + 1
    /\ op' = [op EXCEPT ![p] = o]
    /\ user' = [user EXCEPT ![p] = IF ok THEN u ELSE "none"]
    /\ difficulty' = [difficulty EXCEPT ![p] = IF o \in GenOps THEN d ELSE "none"]
    /\ q_before' = [q_before EXCEPT ![p] =
                      IF ok /\ o \in GenOps
                      THEN {r.quota_remaining : r \in {x \in quotas : x.user_id = u}}
                      ELSE {}]
    /\ IF ok
       THEN Goto(p, Entry(o))
       ELSE IF o \in ApiOps
            THEN Respond(p, RaisedHttp(o, UnauthenticatedStatus), "unauthenticated")
            ELSE Respond(p, 401, "verification failed")
    /\ auth' = [auth EXCEPT ![p] = IF ok THEN "ok" ELSE "failed"]
    /\ UNCHANGED <<store, now, quota, challenge_data, new_challenge, trace,
                   challenge_id, deleted, generator>>

Start(p) ==
    \E o \in Ops, u \in Users, d \in Difficulties, ok \in BOOLEAN :
        /\ (o \notin GenOps => d = CHOOSE x \in Difficulties : TRUE)
        /\ (~ok => u = CHOOSE x \in Users : TRUE)
        /\ Arrive(p, o, u, d, ok)

\* quota = get_challenge_quota(db, user_id): a storage error is swallowed and
\* None is returned.
FetchQuota(p) ==
    /\ pc[p] = "fetch"
    /\ \E ok \in BOOLEAN :
          LET found == IF ok THEN FindQuota(user[p]) ELSE NoQuota IN
          /\ quota' = [quota EXCEPT ![p] = found]
          /\ Goto(p, IF found = NoQuota THEN "create" ELSE "reset")
    /\ UNCHANGED <<store, now, op, user, difficulty, challenge_data,
                   new_challenge, trace, requests, q_before,
                   auth, challenge_id, deleted, generator>>

\* quota = create_challenge_quota(db, user_id): insert_one raises on a storage
\* error and on a duplicate user_id; the handler reports the exception as 400.
CreateQuota(p) ==
    /\ pc[p] = "create"
    /\ \E ok \in BOOLEAN :
          IF ok /\ ~DuplicateKey(user[p])
          THEN /\ nextQid <= MaxQuotaIds
               /\ quotas' = quotas \cup {NewQuotaDoc(user[p])}
               /\ nextQid' = nextQid + 1
               /\ quota' = [quota EXCEPT ![p] = NewQuotaDoc(user[p])]
               /\ Log(p, "create_quota")
               /\ Goto(p, "reset")
          ELSE /\ Respond(p, 400, IF ok THEN "DuplicateKeyError" ELSE "StorageError")
               /\ UNCHANGED <<quotas, nextQid, quota, trace>>
    /\ UNCHANGED <<challenges, nextCid, now, op, user, difficulty, challenge_data,
                   new_challenge, requests, q_before,
                   auth, challenge_id, deleted, generator>>

\* quota = reset_quota_if_needed(db, quota): find_one_and_update by _id when
\* the reset is due; the input is returned when it is not due, when no
\* document has the _id, and when the storage call raises.
ResetQuotaIfNeeded(p) ==
    /\ pc[p] = "reset"
    /\ \E ok \in BOOLEAN :
          IF ResetDue(quota[p]) /\ ok /\ QuotaById(quota[p].id) # NoQuota
          THEN LET r == QuotaById(quota[p].id) IN
               /\ quotas' = (quotas \ {r}) \cup {ResetDoc(r)}
               /\ quota' = [quota EXCEPT ![p] = ResetDoc(r)]
               /\ Log(p, "reset")
          ELSE /\ (~ResetDue(quota[p]) => ok)
               /\ IF ResetDue(quota[p]) /\ ~ok
                  THEN Log(p, "reset_failed")
                  ELSE UNCHANGED trace
               /\ UNCHANGED <<quotas, quota>>
    /\ IF op[p] = "get_quota"
       THEN Respond(p, 200, "quota")
       ELSE Goto(p, "generate")
    /\ UNCHANGED <<challenges, nextQid, nextCid, now, op, user, difficulty,
                   challenge_data, new_challenge, requests, q_before,
                   auth, challenge_id, deleted, generator>>

\* The quota check, then challenge_data = generate_challenge_with_ai(...),
\* which returns the model's challenge or the fallback and never raises.
Generate(p) ==
    /\ pc[p] = "generate"
    /\ IF QuotaExhausted(quota[p])
       THEN /\ Respond(p, RaisedHttp(op[p], 429), "Quota exhausted")
            /\ UNCHANGED <<challenge_data, trace>>
       ELSE /\ \E k \in ChallengeKinds :
                  challenge_data' = [challenge_data EXCEPT ![p] = k]
            /\ Log(p, "generate")
            /\ Goto(p, "persist")
    /\ UNCHANGED <<store, now, op, user, difficulty, quota, new_challenge, requests, q_before,
                   auth, challenge_id, deleted, generator>>

\* The decrement placed before the insert.
PersistChallenge_DecrementFirst(p) ==
    /\ pc[p] = "persist"
    /\ quotas' = {IF r.id = quota[p].id THEN DecrementDoc(r) ELSE r : r \in quotas}
    /\ \E ok \in BOOLEAN :
          IF ok
          THEN /\ nextCid <= MaxChallenges
               /\ challenges' = challenges \cup {NewChallengeDoc(p)}
               /\ nextCid' = nextCid + 1
               /\ new_challenge' = [new_challenge EXCEPT ![p] = nextCid]
               /\ Log(p, "insert")
               /\ Goto(p, "decrement")
          ELSE /\ Respond(p, 400, "StorageError")
               /\ Log(p, "insert_failed")
               /\ UNCHANGED <<challenges, nextCid, new_challenge>>
    /\ UNCHANGED <<nextQid, now, op, user, difficulty, quota,
                   challenge_data, requests, q_before,
                   auth, challenge_id, deleted, generator>>

\* new_challenge = create_challenge(...): insert_one raises on a storage
\* error; the handler reports the exception as 400.
PersistChallenge(p) ==
    /\ pc[p] = "persist"
    /\ \E ok \in BOOLEAN :
          IF ok
          THEN /\ nextCid <= MaxChallenges
               /\ challenges' = challenges \cup {NewChallengeDoc(p)}
               /\ nextCid' = nextCid + 1
               /\ new_challenge' = [new_challenge EXCEPT ![p] = nextCid]
               /\ Log(p, "insert")
               /\ Goto(p, "decrement")
          ELSE /\ Respond(p, 400, "StorageError")
               /\ Log(p, "insert_failed")
               /\ UNCHANGED <<challenges, nextCid, new_challenge>>
    /\ UNCHANGED <<quotas, nextQid, now, op, user, difficulty, quota,
                   challenge_data, requests, q_before,
                   auth, challenge_id, deleted, generator>>

DecrementErrorStatus_Unhandled(o) == 500

\* What the workflow makes of a storage error of the decrement:
\* routes/challenge.py calls update_one inside the handler's try block (400);
\* database/models.py calls update_challenge_quota, which returns False.
DecrementErrorStatus(o) == IF o = "generate" THEN 400 ELSE 200

\* update_one({"_id": quota["_id"]}, {"$inc": {"quota_remaining": -1}}), then
\* the response is built from new_challenge.
DecrementQuota(p) ==
    /\ pc[p] = "decrement"
    /\ \E ok \in BOOLEAN :
          IF ok
          THEN LET r == QuotaById(quota[p].id) IN
               /\ quotas' = IF r = NoQuota THEN quotas
                            ELSE (quotas \ {r}) \cup {DecrementDoc(r)}
               /\ Log(p, IF r = NoQuota THEN "decrement_none" ELSE "decrement")
               /\ Respond(p, 200, "challenge")
          ELSE /\ UNCHANGED quotas
               /\ Log(p, "decrement_failed")
               /\ Respond(p, DecrementErrorStatus(op[p]),
                          IF DecrementErrorStatus(op[p]) = 200
                          THEN "challenge" ELSE "StorageError")
    /\ UNCHANGED <<challenges, nextQid, nextCid, now, op, user, difficulty, quota,
                   challenge_data, new_challenge, requests, q_before,
                   auth, challenge_id, deleted, generator>>

\* The response has been sent; the worker takes the next request.
Finish(p) ==
    /\ pc[p] = "done"
    /\ pc' = [pc EXCEPT ![p] = "idle"]
    /\ op' = [op EXCEPT ![p] = "none"]
    /\ user' = [user EXCEPT ![p] = "none"]
    /\ difficulty' = [difficulty EXCEPT ![p] = "none"]
    /\ quota' = [quota EXCEPT ![p] = NoQuota]
    /\ challenge_data' = [challenge_data EXCEPT ![p] = "none"]
    /\ new_challenge' = [new_challenge EXCEPT ![p] = NoId]
    /\ status' = [status EXCEPT ![p] = 0]
    /\ detail' = [detail EXCEPT ![p] = "none"]
    /\ trace' = [trace EXCEPT ![p] = <<>>]
    /\ q_before' = [q_before EXCEPT ![p] = {}]
    /\ auth' = [auth EXCEPT ![p] = "none"]
    /\ challenge_id' = [challenge_id EXCEPT ![p] = NoId]
    /\ deleted' = [deleted EXCEPT ![p] = NoneDeleted]
    /\ UNCHANGED <<store, now, requests, generator>>

\* force_reset_quota: update_one({"user_id": user_id}, {"$set": ...}, upsert=True).
\* A matched document that already holds the values is not counted as modified;
\* the inserted document of an upsert has no created_at.
ForceResetQuota(p) ==
    /\ pc[p] = "upsert"
    /\ \E ok \in BOOLEAN :
          IF ~ok
          THEN /\ Respond(p, 400, "StorageError")
               /\ UNCHANGED <<quotas, nextQid, trace>>
          ELSE LET r == FindQuota(user[p]) IN
               IF r = NoQuota
               THEN /\ nextQid <= MaxQuotaIds
                    /\ quotas' = quotas \cup
                          {[id |-> nextQid, user_id |-> user[p],
                            quota_remaining |-> DefaultQuota,
                            last_reset_date |-> now, created_at |-> NoTime]}
                    /\ nextQid' = nextQid + 1
                    /\ Log(p, "upsert_insert")
                    /\ Respond(p, 200, "Quota reset successfully")
               ELSE /\ quotas' = (quotas \ {r}) \cup {ResetDoc(r)}
                    /\ UNCHANGED nextQid
                    /\ Log(p, "upsert_update")
                    /\ IF ResetDoc(r) # r
                       THEN Respond(p, 200, "Quota reset successfully")
                       ELSE Respond(p, 404, "User quota not found")
    /\ UNCHANGED <<challenges, nextCid, now, op, user, difficulty, quota,
                   challenge_data, new_challenge, requests, q_before,
                   auth, challenge_id, deleted, generator>>

\* handle_user_created_event: existing_quota = find_one({"user_id": user_id}).
\* An exception inside the event handler becomes HTTPException(500), which
\* the except clause of handle_user_created turns into 401.
HookFindQuota(p) ==
    /\ pc[p] = "wh_find"
    /\ \E ok \in BOOLEAN :
          IF ~ok
          THEN Respond(p, 401, "Failed to create user quota: StorageError")
          ELSE IF FindQuota(user[p]) # NoQuota
               THEN Respond(p, 200, "User quota already exists")
               ELSE Goto(p, "wh_create")
    /\ UNCHANGED <<store, now, op, user, difficulty, quota, challenge_data,
                   new_challenge, trace, requests, q_before,
                   auth, challenge_id, deleted, generator>>

\* handle_user_created_event: quota = create_challenge_quota(db, user_id)
HookCreateQuota(p) ==
    /\ pc[p] = "wh_create"
    /\ \E ok \in BOOLEAN :
          IF ok /\ ~DuplicateKey(user[p])
          THEN /\ nextQid <= MaxQuotaIds
               /\ quotas' = quotas \cup {NewQuotaDoc(user[p])}
               /\ nextQid' = nextQid + 1
               /\ quota' = [quota EXCEPT ![p] = NewQuotaDoc(user[p])]
               /\ Log(p, "create_quota")
               /\ Respond(p, 200, "User quota created successfully")
          ELSE /\ Respond(p, 401, IF DuplicateKey(user[p]) /\ ok
                                   THEN "Failed to create user quota: DuplicateKeyError"
                                   ELSE "Failed to create user quota: StorageError")
               /\ UNCHANGED <<quotas, nextQid, quota, trace>>
    /\ UNCHANGED <<challenges, nextCid, now, op, user, difficulty, challenge_data,
                   new_challenge, requests, q_before,
                   auth, challenge_id, deleted, generator>>

PartialSuccess_Raises(p) == Respond(p, 401, "cleanup failed")

\* handle_user_deleted_event, except Exception: the answer is a normal one
\* with status partial_success.
PartialSuccess(p) == Respond(p, 200, "partial_success")

ChallengesOf_AnyUser(u) == challenges

\* the filter {"created_by": user_id} of delete_many
ChallengesOf(u) == {c \in challenges : c.created_by = u}

\* handle_user_deleted_event: delete_one({"user_id": user_id}) on
\* challenge_quotas; an exception is answered with partial_success.
HookDeleteQuota(p) ==
    /\ pc[p] = "wh_del_quota"
    /\ \E ok \in BOOLEAN :
          IF ok
          THEN /\ quotas' = quotas \ {FindQuota(user[p])}
               /\ deleted' = [deleted EXCEPT ![p].deleted_quotas =
                                 IF FindQuota(user[p]) = NoQuota THEN 0 ELSE 1]
               /\ Log(p, IF FindQuota(user[p]) = NoQuota
                         THEN "delete_quota_none" ELSE "delete_quota")
               /\ Goto(p, "wh_del_chal")
          ELSE /\ PartialSuccess(p)
               /\ UNCHANGED <<quotas, trace, deleted>>
    /\ UNCHANGED <<challenges, nextQid, nextCid, now, op, user, difficulty, quota,
                   challenge_data, new_challenge, requests, q_before,
                   auth, challenge_id, generator>>

\* handle_user_deleted_event: delete_many({"created_by": user_id}) on challenges
HookDeleteChallenges(p) ==
    /\ pc[p] = "wh_del_chal"
    /\ \E ok \in BOOLEAN :
          IF ok
          THEN /\ challenges' = challenges \ ChallengesOf(user[p])
               /\ deleted' = [deleted EXCEPT ![p].deleted_challenges =
                                 Cardinality(ChallengesOf(user[p]))]
               /\ Log(p, "delete_challenges")
               /\ Respond(p, 200, "success")
          ELSE /\ PartialSuccess(p)
               /\ UNCHANGED <<challenges, trace, deleted>>
    /\ UNCHANGED <<quotas, nextQid, nextCid, now, op, user, difficulty, quota,
                   challenge_data, new_challenge, requests, q_before,
                   auth, challenge_id, generator>>

\* ----------------------------------------------------------- specification

Next ==
    \/ Tick
    \/ \E p \in Procs : Start(p)
    \/ \E p \in Procs : FetchQuota(p)
    \/ \E p \in Procs : CreateQuota(p)
    \/ \E p \in Procs : ResetQuotaIfNeeded(p)
    \/ \E p \in Procs : Generate(p)
    \/ \E p \in Procs : PersistChallenge(p)
    \/ \E p \in Procs : DecrementQuota(p)
    \/ \E p \in Procs : ForceResetQuota(p)
    \/ \E p \in Procs : HookFindQuota(p)
    \/ \E p \in Procs : HookCreateQuota(p)
    \/ \E p \in Procs : HookDeleteQuota(p)
    \/ \E p \in Procs : HookDeleteChallenges(p)
    \/ \E p \in Procs : Finish(p)

Spec == Init /\ [][Next]_vars

\* Sequential service: a request arrives only when no other is in flight.
Alone(p) == \A q \in Procs \ {p} : pc[q] = "idle"

NextSeq ==
    \/ Tick
    \/ \E p \in Procs : Alone(p) /\ Start(p)
    \/ \E p \in Procs : Alone(p) /\ FetchQuota(p)
    \/ \E p \in Procs : Alone(p) /\ CreateQuota(p)
    \/ \E p \in Procs : Alone(p) /\ ResetQuotaIfNeeded(p)
    \/ \E p \in Procs : Alone(p) /\ Generate(p)
    \/ \E p \in Procs : Alone(p) /\ PersistChallenge(p)
    \/ \E p \in Procs : Alone(p) /\ DecrementQuota(p)
    \/ \E p \in Procs : Alone(p) /\ ForceResetQuota(p)
    \/ \E p \in Procs : Alone(p) /\ HookFindQuota(p)
    \/ \E p \in Procs : Alone(p) /\ HookCreateQuota(p)
    \/ \E p \in Procs : Alone(p) /\ HookDeleteQuota(p)
    \/ \E p \in Procs : Alone(p) /\ HookDeleteChallenges(p)
    \/ \E p \in Procs : Alone(p) /\ Finish(p)

SpecSeq == Init /\ [][NextSeq]_vars

\* All workers wait for a request.
WorkersIdle ==
    /\ pc = [p \in Procs |-> "idle"]
    /\ op = [p \in Procs |-> "none"]
    /\ user = [p \in Procs |-> "none"]
    /\ difficulty = [p \in Procs |-> "none"]
    /\ quota = [p \in Procs |-> NoQuota]
    /\ challenge_data = [p \in Procs |-> "none"]
    /\ new_challenge = [p \in Procs |-> NoId]
    /\ status = [p \in Procs |-> 0]
    /\ detail = [p \in Procs |-> "none"]
    /\ trace = [p \in Procs |-> <<>>]
    /\ q_before = [p \in Procs |-> {}]
    /\ auth = [p \in Procs |-> "none"]
    /\ challenge_id = [p \in Procs |-> NoId]
    /\ deleted = [p \in Procs |-> NoneDeleted]

\* Documents earlier requests left behind: two challenges of u1, one of u2,
\* and the quota records of both.
StoredChallenges ==
    {[id |-> 1, difficulty |-> "easy", created_by |-> "u1", kind |-> "model"],
     [id |-> 2, difficulty |-> "easy", created_by |-> "u1", kind |-> "fallback"],
     [id |-> 3, difficulty |-> "easy", created_by |-> "u2", kind |-> "model"]}
StoredQuotas ==
    {[id |-> 1, user_id |-> "u1", quota_remaining |-> 1,
      last_reset_date |-> ResetHours, created_at |-> 0],
     [id |-> 2, user_id |-> "u2", quota_remaining |-> 1,
      last_reset_date |-> ResetHours, created_at |-> 0]}

\* ------------------------------------------------------ delete_challenge

\* challenge_id values of a request: the _id of a stored challenge, a
\* well-formed id no document has, or a string ObjectId() rejects.
UnknownId == 9
MalformedId == 0 - 1
ChallengeIdInputs == {c.id : c \in StoredChallenges} \cup {UnknownId, MalformedId}

DeleteMatches_AnyCreator(cid, u) == {c \in challenges : c.id = cid}

\* the filter {"_id": obj_id, "created_by": user_id}
DeleteMatches(cid, u) == {c \in challenges : c.id = cid /\ c.created_by = u}

NotFoundDetail == "Challenge not found or you don't have permission to delete it"

\* DELETE /challenges/{challenge_id} arrives: the caller is resolved and
\* ObjectId(challenge_id) is built.
ArriveDelete(p, u, cid, ok) ==
    /\ pc[p] = "idle"
    /\ \A q \in Procs : q < p => pc[q] # "idle"
    /\ requests < MaxRequests
    /\ requests' = requests + 1
    /\ op' = [op EXCEPT ![p] = "delete_challenge"]
    /\ user' = [user EXCEPT ![p] = IF ok THEN u ELSE "none"]
    /\ auth' = [auth EXCEPT ![p] = IF ok THEN "ok" ELSE "failed"]
    /\ challenge_id' = [challenge_id EXCEPT ![p] = cid]
    /\ IF ~ok
       THEN Respond(p, RaisedHttp("delete_challenge", UnauthenticatedStatus),
                    "unauthenticated")
       ELSE IF cid = MalformedId
       THEN Respond(p, RaisedHttp("delete_challenge", 400),
                    "Invalid challenge ID format")
       ELSE Goto(p, "delete")
    /\ UNCHANGED <<store, now, difficulty, quota, challenge_data, new_challenge,
                   trace, q_before, deleted, generator>>

StartDelete(p) ==
    \E u \in Users, cid \in ChallengeIdInputs, ok \in BOOLEAN :
        /\ (~ok => u = CHOOSE x \in Users : TRUE)
        /\ ArriveDelete(p, u, cid, ok)

\* result = db.challenges.delete_one({"_id": obj_id, "created_by": user_id})
\* and the answer that depends on result.deleted_count.
DeleteChallenge(p) ==
    /\ pc[p] = "delete"
    /\ \E ok \in BOOLEAN :
          IF ~ok
          THEN /\ Respond(p, 400, "StorageError")
               /\ UNCHANGED <<challenges, trace>>
          ELSE IF DeleteMatches(challenge_id[p], user[p]) # {}
          THEN /\ challenges' = challenges \
                     {CHOOSE c \in DeleteMatches(challenge_id[p], user[p]) : TRUE}
               /\ Log(p, "delete_challenge")
               /\ Respond(p, 200, "Challenge deleted successfully")
          ELSE /\ Respond(p, RaisedHttp("delete_challenge", 404), NotFoundDetail)
               /\ UNCHANGED <<challenges, trace>>
    /\ UNCHANGED <<quotas, nextQid, nextCid, now, op, user, difficulty, quota,
                   challenge_data, new_challenge, requests, q_before,
                   auth, challenge_id, deleted, generator>>

InitDelete ==
    /\ now = ResetHours
    /\ quotas = StoredQuotas
    /\ nextQid = 3
    /\ challenges \in SUBSET StoredChallenges
    /\ nextCid = 4
    /\ requests = 0
    /\ WorkersIdle
    /\ GeneratorOff

NextDelete ==
    \/ \E p \in Procs : StartDelete(p)
    \/ \E p \in Procs : DeleteChallenge(p)
    \/ \E p \in Procs : Finish(p)

SpecDelete == InitDelete /\ [][NextDelete]_vars

\* ------------------------------------------------- webhook deliveries

\* Event types of a delivery: the three the dispatcher knows and any other.
Events == {"user_created", "user_deleted", "user_updated", "other_event"}

\* data.id of the payload; "none" when the payload carries no id.
PayloadUsers == Users \cup {"none"}

\* What becomes of the signature check: the secret is not configured, or
\* wh.verify raises, or it passes.
Verifications == {"ok", "failed", "no_secret"}

VerificationPasses_Always(v) == TRUE

\* wh.verify(payload, headers) raises nothing
VerificationPasses(v) == v = "ok"

\* The dispatch on event_type and the first lines of the handler it calls.
\* An HTTPException raised by handle_user_created_event is caught by the
\* dispatcher's except Exception and answered 401.
Dispatch(p, ev, u) ==
    CASE ev = "user_created" ->
            IF u = "none"
            THEN Respond(p, 401, "Failed to create user quota: No user ID found")
            ELSE Goto(p, "wh_find")
      [] ev = "user_deleted" ->
            IF u = "none"
            THEN Respond(p, 200, "error")
            ELSE Goto(p, "wh_del_quota")
      [] ev = "user_updated" -> Respond(p, 200, "User update processed")
      [] OTHER -> Respond(p, 200, "ignored")

\* POST /clerk arrives with an event ev for user u.
ArriveEvent(p, ev, u, v) ==
    /\ pc[p] = "idle"
    /\ \A q \in Procs : q < p => pc[q] # "idle"
    /\ requests < MaxRequests
    /\ requests' = requests + 1
    /\ op' = [op EXCEPT ![p] = ev]
    /\ auth' = [auth EXCEPT ![p] = v]
    /\ user' = [user EXCEPT ![p] = IF v = "ok" THEN u ELSE "none"]
    /\ IF v = "no_secret"
       THEN Respond(p, 500, "CLERK_WEBHOOK_SECRET not set")
       ELSE IF ~VerificationPasses(v)
       THEN Respond(p, 401, "verification failed")
       ELSE Dispatch(p, ev, u)
    /\ UNCHANGED <<store, now, difficulty, quota, challenge_data, new_challenge,
                   trace, q_before, challenge_id, deleted, generator>>

StartEvent(p) ==
    \E ev \in Events, u \in PayloadUsers, v \in Verifications :
        /\ (v # "ok" => u = "none")
        /\ ArriveEvent(p, ev, u, v)

InitHooks ==
    /\ now = ResetHours
    /\ quotas \in SUBSET StoredQuotas
    /\ nextQid = 3
    /\ challenges \in SUBSET StoredChallenges
    /\ nextCid = 4
    /\ requests = 0
    /\ WorkersIdle
    /\ GeneratorOff

NextHooks ==
    \/ \E p \in Procs : StartEvent(p)
    \/ \E p \in Procs : HookFindQuota(p)
    \/ \E p \in Procs : HookCreateQuota(p)
    \/ \E p \in Procs : HookDeleteQuota(p)
    \/ \E p \in Procs : HookDeleteChallenges(p)
    \/ \E p \in Procs : Finish(p)

SpecHooks == InitHooks /\ [][NextHooks]_vars

\* ------------------------------------------------ identity resolution

\* What authenticate_and_get_user_details does for a request: it returns
\* details with the caller's user_id, it raises, or it returns details in
\* which user_id is missing, so that user_details.get("user_id") is None.
Resolutions == {"ok", "failed", "no_user_id"}
IdentityOps == {"generate", "get_quota"}

\* generate_challenge and get_quota of routes/challenge.py with user_id =
\* None: no test of user_id precedes the first storage call.
ArriveUnidentified(p, o, d) ==
    /\ pc[p] = "idle"
    /\ \A q \in Procs : q < p => pc[q] # "idle"
    /\ requests < MaxRequests
    /\ requests' = requests + 1
    /\ op' = [op EXCEPT ![p] = o]
    /\ user' = [user EXCEPT ![p] = "none"]
    /\ auth' = [auth EXCEPT ![p] = "no_user_id"]
    /\ difficulty' = [difficulty EXCEPT ![p] = IF o \in GenOps THEN d ELSE "none"]
    /\ q_before' = [q_before EXCEPT ![p] =
                      IF o \in GenOps
                      THEN {r.quota_remaining : r \in {x \in quotas : x.user_id = "none"}}
                      ELSE {}]
    /\ Goto(p, Entry(o))
    /\ UNCHANGED <<store, now, quota, challenge_data, new_challenge, trace,
                   challenge_id, deleted, generator>>

StartIdentity(p) ==
    \E o \in IdentityOps, u \in Users, d \in Difficulties, res \in Resolutions :
        /\ (o \notin GenOps => d = CHOOSE x \in Difficulties : TRUE)
        /\ (res # "ok" => u = CHOOSE x \in Users : TRUE)
        /\ IF res = "no_user_id"
           THEN ArriveUnidentified(p, o, d)
           ELSE Arrive(p, o, u, d, res = "ok")

NextIdentity ==
    \/ \E p \in Procs : StartIdentity(p)
    \/ \E p \in Procs : FetchQuota(p)
    \/ \E p \in Procs : CreateQuota(p)
    \/ \E p \in Procs : ResetQuotaIfNeeded(p)
    \/ \E p \in Procs : Generate(p)
    \/ \E p \in Procs : PersistChallenge(p)
    \/ \E p \in Procs : DecrementQuota(p)
    \/ \E p \in Procs : Finish(p)

SpecIdentity == Init /\ [][NextIdentity]_vars

\* -------------------------------------------------------- termination

\* One statement of a generate_challenge or get_quota handler: every storage
\* call of the handler returns or raises.
HandlerStep(p) ==
    \/ FetchQuota(p)
    \/ CreateQuota(p)
    \/ ResetQuotaIfNeeded(p)
    \/ Generate(p)
    \/ PersistChallenge(p)
    \/ DecrementQuota(p)

\* A generate-challenge request of u1 arrives: the caller is resolved or not.
StartGenerate(p) ==
    \E d \in Difficulties, ok \in BOOLEAN : Arrive(p, "generate", "u1", d, ok)

NextLive ==
    \/ Tick
    \/ \E p \in Procs : StartGenerate(p)
    \/ \E p \in Procs : HandlerStep(p)
    \/ \E p \in Procs : Finish(p)

\* The API requests with a handler that is never left waiting for ever.
SpecLive ==
    /\ Init
    /\ [][NextLive]_vars
    /\ \A p \in Procs : WF_vars(HandlerStep(p))

\* -------------------------------------------------- the two copies

\* The same request is served once by each copy of generate_challenge at the
\* same instant: worker 1 runs routes/challenge.py for u1, worker 2 runs
\* database/models.py for u2, and the documents of u1 and u2 start alike.
\* The caller is resolved to its user id or not at all, so the test
\* "if not user_id" of database/models.py is passed whenever it is reached.
TwinOp(p) == IF p = 1 THEN "generate" ELSE "generate_alt"
TwinUser(p) == IF p = 1 THEN "u1" ELSE "u2"

InitTwin ==
    /\ now \in {ResetHours, ResetHours + TickStep}
    /\ \E present \in BOOLEAN, q \in InitQuotaValues, t \in {0, TickStep} :
          /\ quotas = IF present
                      THEN {[id |-> p, user_id |-> TwinUser(p), quota_remaining |-> q,
                             last_reset_date |-> t, created_at |-> 0] : p \in Procs}
                      ELSE {}
          /\ nextQid = IF present THEN 3 ELSE 1
          /\ (~present => q = 0 /\ t = 0)
    /\ challenges = {}
    /\ nextCid = 1
    /\ requests = 0
    /\ pc = [p \in Procs |-> "idle"]
    /\ op = [p \in Procs |-> "none"]
    /\ user = [p \in Procs |-> "none"]
    /\ difficulty = [p \in Procs |-> "none"]
    /\ quota = [p \in Procs |-> NoQuota]
    /\ challenge_data = [p \in Procs |-> "none"]
    /\ new_challenge = [p \in Procs |-> NoId]
    /\ status = [p \in Procs |-> 0]
    /\ detail = [p \in Procs |-> "none"]
    /\ trace = [p \in Procs |-> <<>>]
    /\ q_before = [p \in Procs |-> {}]
    /\ auth = [p \in Procs |-> "none"]
    /\ challenge_id = [p \in Procs |-> NoId]
    /\ deleted = [p \in Procs |-> NoneDeleted]
    /\ GeneratorOff

StartTwin(p) ==
    \E d \in Difficulties, ok \in BOOLEAN :
        Arrive(p, TwinOp(p), TwinUser(p), d, ok)

NextTwin ==
    \/ \E p \in Procs : StartTwin(p)
    \/ \E p \in Procs : HandlerStep(p)

SpecTwin == InitTwin /\ [][NextTwin]_vars

\* The adapter call of one generate-challenge request, followed on its own:
\* worker 1 is at challenge_data = generate_challenge_with_ai(difficulty) and
\* the inference endpoint answers in any of the ways of Responses.
AllDifficulties == {"easy", "medium", "hard"}
Texts == UNION {[1..n -> Tokens] : n \in 0..MaxTextLen}
Responses ==
    [outcome : FailureOutcomes, text : {<<>>}] \cup [outcome : TextOutcomes, text : Texts]

handlers == <<store, now, pc, op, user, difficulty, quota, challenge_data,
              new_challenge, status, detail, trace, requests, q_before, auth,
              challenge_id, deleted>>

AdapterCalled(inputs) ==
    /\ now = ResetHours
    /\ quotas = {[id |-> 1, user_id |-> "u1", quota_remaining |-> 1,
                  last_reset_date |-> ResetHours, created_at |-> 0]}
    /\ nextQid = 2
    /\ challenges = {}
    /\ nextCid = 1
    /\ requests = 1
    /\ pc = [p \in Procs |-> IF p = 1 THEN "generate" ELSE "idle"]
    /\ op = [p \in Procs |-> IF p = 1 THEN "generate" ELSE "none"]
    /\ user = [p \in Procs |-> IF p = 1 THEN "u1" ELSE "none"]
    /\ \E d \in AllDifficulties :
          difficulty = [p \in Procs |-> IF p = 1 THEN d ELSE "none"]
    /\ quota = [p \in Procs |-> IF p = 1 THEN CHOOSE r \in quotas : TRUE ELSE NoQuota]
    /\ challenge_data = [p \in Procs |-> "none"]
    /\ new_challenge = [p \in Procs |-> NoId]
    /\ status = [p \in Procs |-> 0]
    /\ detail = [p \in Procs |-> "none"]
    /\ trace = [p \in Procs |-> <<>>]
    /\ q_before = [p \in Procs |-> IF p = 1 THEN {1} ELSE {}]
    /\ auth = [p \in Procs |-> IF p = 1 THEN "ok" ELSE "none"]
    /\ challenge_id = [p \in Procs |-> NoId]
    /\ deleted = [p \in Procs |-> NoneDeleted]
    /\ gen_pc = "start"
    /\ response \in inputs
    /\ generated = Value(NoChallenge)
    /\ posts = 0

InitGen == AdapterCalled(Responses)

\* response = requests.post(HF_API_URL, headers=headers, json=payload)
GenPost ==
    /\ gen_pc = "start"
    /\ posts' = posts + 1
    /\ gen_pc' = "posted"
    /\ UNCHANGED <<handlers, response, generated>>

\* A second request after a response that could not be used.
GenReturn_Retries ==
    /\ gen_pc = "posted"
    /\ generated' = GenerateChallengeWithAi(response)
    /\ gen_pc' = "returned"
    /\ posts' = IF TryBody(response).exc = "none" THEN posts ELSE posts + 1
    /\ UNCHANGED <<handlers, response>>

\* The rest of generate_challenge_with_ai: the function returns a value or
\* lets an exception escape.
GenReturn ==
    /\ gen_pc = "posted"
    /\ generated' = GenerateChallengeWithAi(response)
    /\ gen_pc' = IF GenerateChallengeWithAi(response).exc = "none"
                 THEN "returned" ELSE "raised"
    /\ UNCHANGED <<handlers, response, posts>>

NextGen ==
    \/ GenPost
    \/ GenReturn

SpecGen == InitGen /\ [][NextGen]_vars

\* Answers whose text holds a well-formed challenge object, after some
\* leading text without braces and before any text at all.
Prefixes == {<<>>, <<"ws">>, <<"inst">>, <<"x">>}
TailResponses ==
    [outcome : TextOutcomes,
     text : {pre \o <<"{", "b_good", "}">> \o tail : pre \in Prefixes, tail \in Texts}]

InitTail == AdapterCalled(TailResponses)

SpecTail == InitTail /\ [][NextGen]_vars

\* ------------------------------------------- requests of any difficulty

\* "difficulty": request.difficulty of the response of generate_challenge
ResponseDifficulty(p) == difficulty[p]

\* A generate-challenge request of a resolved caller arrives with the default
\* difficulty or with another one.
RequestDifficulties == {"easy", "hard"}
StartRequest(p) ==
    \E u \in Users, d \in RequestDifficulties : Arrive(p, "generate", u, d, TRUE)

NextRequests ==
    \/ \E p \in Procs : StartRequest(p)
    \/ \E p \in Procs : HandlerStep(p)
    \/ \E p \in Procs : Finish(p)

SpecRequests == Init /\ [][NextRequests]_vars

\* ------------------------------------------------------------ properties

InTrace(p, event) == \E i \in DOMAIN trace[p] : trace[p][i] = event

\* The logged calls that changed a collection or called the generation adapter.
EffectiveCalls ==
    {"create_quota", "reset", "generate", "insert", "decrement",
     "upsert_insert", "upsert_update", "delete_quota", "delete_challenges"}

\* The handler of p takes a step.
Steps(p) == pc'[p] # pc[p]

\* The run of p is past reset_quota_if_needed and holds a quota record.
PastReset(p) ==
    /\ op[p] = "generate"
    /\ pc[p] \in {"generate", "persist", "decrement", "done"}
    /\ quota[p] # NoQuota

\* C1: a generate-challenge request whose quota record, after
\* reset_quota_if_needed, has quota_remaining = 0 never calls the generation
\* adapter and ends as 429 "Quota exhausted".
C1_ExhaustedNeverGenerates ==
    \A p \in Procs :
        (PastReset(p) /\ quota[p].quota_remaining = 0) =>
            /\ ~InTrace(p, "generate")
            /\ pc[p] \in {"generate", "done"}
            /\ (pc[p] = "done" => status[p] = 429 /\ detail[p] = "Quota exhausted")

C1_Witness ==
    \E p \in Procs :
        /\ PastReset(p) /\ quota[p].quota_remaining = 0
        /\ pc[p] = "done" /\ status[p] = 429

\* C2: when the record a generate-challenge request read holds
\* quota_remaining = 0 and no reset was applied, the request answers 429 (not
\* 400), no call of the whole run has written to a collection, and the quota
\* and challenge collections are as they were.
C2_ExhaustedRequestChangesNothing ==
    [][\A p \in Procs :
          (PastReset(p) /\ pc[p] = "generate" /\ quota[p].quota_remaining = 0
              /\ Steps(p)) =>
             /\ pc'[p] = "done"
             /\ status'[p] = 429
             /\ \A i \in DOMAIN trace'[p] : trace'[p][i] \notin EffectiveCalls
             /\ quotas' = quotas
             /\ challenges' = challenges
      ]_vars

C2_Witness ==
    \E p \in Procs :
        /\ PastReset(p) /\ pc[p] = "done" /\ status[p] = 429
        /\ q_before[p] = {0}
        /\ ~ResetDue(quota[p])
        /\ quota[p] \in quotas
        /\ trace[p] = <<>>

\* C3: quota_remaining of every quota record is >= 0 in every reachable state.
C3_QuotaNeverNegative == \A r \in quotas : r.quota_remaining >= 0

\* The stored quota_remaining of the user p serves, as a set.
StoredQuota(p) == {r.quota_remaining : r \in {x \in quotas : x.user_id = user[p]}}

\* The run of p has ended in SUCCESS and its decrement modified a record.
SucceededWithDecrement(p) ==
    /\ op[p] = "generate" /\ pc[p] = "done" /\ status[p] = 200
    /\ InTrace(p, "decrement")

\* C4 as claimed: after a SUCCESS run whose decrement succeeded, the stored
\* quota_remaining is the stored value before the run minus 1.
C4_AfterIsBeforeMinusOne ==
    \A p \in Procs :
        (SucceededWithDecrement(p) /\ q_before[p] # {}) =>
            StoredQuota(p) = {q - 1 : q \in q_before[p]}

\* C4 amended: with no other request in flight, after a SUCCESS run whose
\* decrement succeeded the stored quota_remaining is one less than the value
\* the quota check saw: the value before the run when the run neither
\* created nor reset the record, and DefaultQuota when it did.
C4_AfterIsCheckedMinusOne ==
    \A p \in Procs :
        SucceededWithDecrement(p) =>
            LET base == IF InTrace(p, "reset") \/ InTrace(p, "create_quota")
                        THEN {DefaultQuota}
                        ELSE q_before[p]
            IN /\ base # {}
               /\ StoredQuota(p) = {q - 1 : q \in base}
               /\ base = {quota[p].quota_remaining}

C4_Witness ==
    \E p \in Procs :
        /\ SucceededWithDecrement(p)
        /\ InTrace(p, "reset")
        /\ q_before[p] = {1}
        /\ StoredQuota(p) = {DefaultQuota - 1}

\* C5: when the challenge insert fails, the request answers 400 at once, the
\* run makes no decrement call, and the quota collection is what it was just
\* before the insert was attempted.
C5_PersistFailureKeepsQuota ==
    [][\A p \in Procs :
          (op[p] = "generate" /\ pc[p] = "persist" /\ Steps(p)
              /\ challenges' = challenges) =>
             /\ pc'[p] = "done"
             /\ status'[p] = 400
             /\ quotas' = quotas
             /\ \A i \in DOMAIN trace'[p] :
                   trace'[p][i] \notin {"decrement", "decrement_none", "decrement_failed"}
      ]_vars

C5_Witness ==
    \E p \in Procs :
        /\ op[p] = "generate" /\ pc[p] = "done" /\ status[p] = 400
        /\ InTrace(p, "insert_failed")
        /\ quota[p] \in quotas
        /\ challenges = {}

\* C6: when the decrement after a successful insert modifies no record (a
\* storage error, or no record with the _id), the request still ends in
\* SUCCESS with the challenge payload and the challenge collection keeps the
\* inserted record.
C6_DecrementFailureStillSuccess ==
    [][\A p \in Procs :
          (op[p] = "generate" /\ pc[p] = "decrement" /\ Steps(p)
              /\ quotas' = quotas) =>
             /\ status'[p] = 200
             /\ detail'[p] = "challenge"
             /\ challenges' = challenges
      ]_vars

\* C7: of two concurrent first generate-challenge requests of a new user
\* that both found no quota record, the one whose create the unique index
\* rejects (the other has created the record) re-fetches that record and
\* continues the workflow.
C7_DuplicateCreateRefetches ==
    [][\A p \in Procs :
          (op[p] = "generate" /\ pc[p] = "create" /\ Steps(p)
              /\ q_before[p] = {} /\ DuplicateKey(user[p])
              /\ detail'[p] # "StorageError"
              /\ \E q \in Procs \ {p} :
                    /\ op[q] = "generate" /\ user[q] = user[p]
                    /\ q_before[q] = {} /\ InTrace(q, "create_quota")) =>
             /\ pc'[p] = "reset"
             /\ quota'[p] = FindQuota(user[p])
      ]_vars

\* C8: the quota collection never holds two records with the same user_id.
C8_OneQuotaRecordPerUser ==
    \A r1 \in quotas : \A r2 \in quotas : r1.user_id = r2.user_id => r1 = r2

C8_Witness ==
    /\ \E p \in Procs : pc[p] = "done" /\ detail[p] = "DuplicateKeyError"
    /\ \A u \in Users : Cardinality({r \in quotas : r.user_id = u}) = 1

\* C9: a get-quota or generate-challenge request that fetches the quota of a
\* user who has no record goes on to create it, and a create that does not
\* raise adds exactly one record to the collection: the user's, with
\* quota_remaining = 50 and last_reset_date = created_at = the time of the
\* create, which is also the record the handler continues with.
C9_FirstFetchCreatesDefaultRecord ==
    [][\A p \in Procs :
          /\ (pc[p] = "fetch" /\ Steps(p) /\ ~DuplicateKey(user[p])) =>
                pc'[p] = "create"
          /\ (pc[p] = "create" /\ Steps(p) /\ ~DuplicateKey(user[p])) =>
                \/ /\ pc'[p] = "done" /\ detail'[p] = "StorageError"
                   /\ quotas' = quotas
                \/ /\ pc'[p] = "reset"
                   /\ quotas \subseteq quotas'
                   /\ Cardinality(quotas' \ quotas) = 1
                   /\ \A r \in quotas' \ quotas :
                         /\ r.user_id = user[p]
                         /\ r.quota_remaining = 50
                         /\ r.last_reset_date = now
                         /\ r.created_at = now
                         /\ quota'[p] = r
      ]_vars

C9_Witness ==
    \E p \in Procs :
        /\ op[p] \in {"generate", "get_quota"}
        /\ q_before[p] = {}
        /\ trace[p] = <<"create_quota">>
        /\ quota[p] \in quotas
        /\ quota[p].quota_remaining = 50
        /\ quota[p].last_reset_date = quota[p].created_at

\* C10: reset_quota_if_needed, called with a record whose last_reset_date is
\* 24 hours or more before now (exactly 24 hours included), with the record
\* in the collection and no storage error, stores quota_remaining = 50 and
\* last_reset_date = now and returns the updated record.
C10_ResetsAtTwentyFourHoursOrMore ==
    [][\A p \in Procs :
          (pc[p] = "reset" /\ Steps(p)
              /\ now - quota[p].last_reset_date >= ResetHours
              /\ QuotaById(quota[p].id) # NoQuota
              /\ "reset_failed" \notin {trace'[p][i] : i \in DOMAIN trace'[p]}) =>
             /\ quota'[p] \in quotas'
             /\ quota'[p].id = quota[p].id
             /\ quota'[p].quota_remaining = 50
             /\ quota'[p].last_reset_date = now
      ]_vars


\* C11: reset_quota_if_needed is a no-op while less than ResetHours have
\* passed since last_reset_date: the handler keeps the record it passed in and
\* the collection is unchanged; and a second call at the same instant with
\* the record the first call returned changes nothing either: that record is
\* not due, or no stored document has its _id.
C11_ResetIsNoOpBeforeDueAndIdempotent ==
    [][\A p \in Procs :
          pc[p] = "reset" /\ Steps(p) =>
             /\ (now - quota[p].last_reset_date < ResetHours =>
                    quota'[p] = quota[p] /\ quotas' = quotas)
             /\ (~InTrace(p, "reset_failed")' =>
                    (now' - quota'[p].last_reset_date > ResetHours =>
                        \A r \in quotas' : r.id # quota'[p].id))]_vars

\* A get-quota request whose record was not due has been answered with the
\* stored record as it was.
C11_Witness ==
    \E p \in Procs :
        /\ op[p] = "get_quota" /\ pc[p] = "done" /\ status[p] = 200
        /\ trace[p] = <<>>
        /\ quota[p] \in quotas
        /\ now - quota[p].last_reset_date < ResetHours


\* C12: the due-check and the write of reset_quota_if_needed act as one
\* atomic step on the stored document: a reset step never overwrites a stored
\* record that is itself not due and that a run has decremented since its
\* reset, so no decrement applied after the rollover reset is lost.
C12_ResetNeverOverwritesADecrement ==
    [][\A p \in Procs :
          /\ pc[p] = "reset" /\ Steps(p)
          /\ QuotaById(quota[p].id) # NoQuota
          /\ ~ResetDue(QuotaById(quota[p].id))
          /\ QuotaById(quota[p].id).quota_remaining < DefaultQuota
          => quotas' = quotas]_vars


\* C13: whatever the inference endpoint answers, generate_challenge_with_ai
\* raises nothing and returns a value with a title, an explanation, exactly
\* four options and a correct_answer_id that is an integer from 0 to 3.
C13_AdapterReturnsWellFormedChallenge ==
    /\ gen_pc # "raised"
    /\ gen_pc = "returned" =>
          /\ generated.exc = "none"
          /\ generated.value.title # "absent"
          /\ generated.value.explanation # "absent"
          /\ generated.value.options = JsonValue("list", 4)
          /\ generated.value.correct_answer_id \in
                {JsonValue("int", i) : i \in 0..3}


\* C14: a delete_challenge step for a challenge that does not exist or that
\* another user created leaves the challenges collection unchanged and, when
\* the storage call succeeds, answers 404 with the one not-found detail in
\* both cases; a step that answers 200 removes exactly the one challenge
\* with the requested _id, which the caller created, and no other.
C14_DeleteOnlyByCreator ==
    [][\A p \in Procs :
          pc[p] = "delete" /\ Steps(p) =>
             LET target == {c \in challenges : c.id = challenge_id[p]}
                 own == {c \in target : c.created_by = user[p]}
             IN  /\ quotas' = quotas
                 /\ (own = {} =>
                        /\ challenges' = challenges
                        /\ (detail'[p] # "StorageError" =>
                               status'[p] = 404 /\ detail'[p] = NotFoundDetail))
                 /\ (status'[p] = 200 =>
                        /\ Cardinality(own) = 1
                        /\ challenges' = challenges \ own)
                 /\ (own # {} /\ detail'[p] # "StorageError" => status'[p] = 200)]_vars

\* One request for a challenge of another user has been answered 404 with the
\* challenge still stored, and one request of a creator has removed its
\* challenge.
C14_Witness ==
    \E p, q \in Procs :
        /\ op[p] = "delete_challenge" /\ pc[p] = "done" /\ status[p] = 404
        /\ \E c \in challenges : c.id = challenge_id[p] /\ c.created_by # user[p]
        /\ op[q] = "delete_challenge" /\ pc[q] = "done" /\ status[q] = 200
        /\ challenge_id[q] \notin {c.id : c \in challenges}
        /\ Cardinality(challenges) = 2


\* The pc values inside an event handler.
HandlerLabels == {"wh_find", "wh_create", "wh_del_quota", "wh_del_chal"}

\* C15: a delivery whose signature verification fails is answered 401 in the
\* arrival step with both collections unchanged, and no delivery is inside
\* an event handler, or has made a storage call, unless its verification
\* passed.
C15_UnverifiedDeliveryRejectedUntouched ==
    /\ [][\A p \in Procs :
             pc[p] = "idle" /\ Steps(p) /\ auth'[p] = "failed" =>
                /\ pc'[p] = "done" /\ status'[p] = 401
                /\ store' = store
                /\ trace'[p] = <<>>]_vars
    /\ [](\A p \in Procs :
             op[p] \in Events /\ (pc[p] \in HandlerLabels \/ trace[p] # <<>>)
                => auth[p] = "ok")

\* A delivery that failed verification has been answered while documents
\* of both collections are stored.
C15_Witness ==
    \E p \in Procs :
        /\ op[p] \in {"user_created", "user_deleted", "user_updated"}
        /\ pc[p] = "done" /\ auth[p] = "failed" /\ status[p] = 401
        /\ quotas # {} /\ challenges # {}

\* C16: a delivery whose payload verified ends with a 200 answer, also when
\* the handler it was dispatched to fails; 401 is answered only when
\* verification failed.
C16_VerifiedDeliveryAnswers200 ==
    \A p \in Procs :
        op[p] \in Events /\ pc[p] = "done" =>
           /\ (auth[p] = "ok" => status[p] = 200)
           /\ (status[p] = 401 => auth[p] = "failed")


\* C17: every verified user.created delivery for a user reports success,
\* also when it runs concurrently with another delivery or with the user's
\* first generate-challenge or get-quota request; only an outage of the
\* storage is set aside.
C17_UserCreatedDeliveryReportsSuccess ==
    \A p \in Procs :
        /\ op[p] = "user_created" /\ pc[p] = "done" /\ auth[p] = "ok"
        /\ detail[p] # "Failed to create user quota: StorageError"
        /\ \A q \in Procs \ {p} :
              op[q] \in {"none", "user_created", "generate", "get_quota"}
        => status[p] = 200

\* C18: with the storage calls succeeding, the two steps of a verified
\* user.deleted event for user U remove U's quota record and every challenge
\* with created_by = U, count in deleted_quotas and deleted_challenges the
\* documents removed, and leave every document of another user in place.
C18_UserDeletedRemovesOnlyThatUser ==
    [][\A p \in Procs :
          /\ (pc[p] = "wh_del_quota" /\ Steps(p) /\ trace'[p] # trace[p] =>
                /\ quotas' = {r \in quotas : r.user_id # user[p]}
                /\ deleted'[p].deleted_quotas = Cardinality(quotas \ quotas')
                /\ challenges' = challenges)
          /\ (pc[p] = "wh_del_chal" /\ Steps(p) /\ trace'[p] # trace[p] =>
                /\ challenges' = {c \in challenges : c.created_by # user[p]}
                /\ deleted'[p].deleted_challenges =
                      Cardinality(challenges \ challenges')
                /\ quotas' = quotas
                /\ status'[p] = 200 /\ detail'[p] = "success")]_vars

\* A user.deleted event for u1 has removed the quota record and both
\* challenges of u1 while the documents of u2 are still stored.
C18_Witness ==
    \E p \in Procs :
        /\ op[p] = "user_deleted" /\ pc[p] = "done" /\ detail[p] = "success"
        /\ user[p] = "u1"
        /\ deleted[p] = [deleted_quotas |-> 1, deleted_challenges |-> 2]
        /\ \A r \in quotas : r.user_id = "u2"
        /\ \A c \in challenges : c.created_by = "u2"
        /\ quotas # {} /\ challenges # {}

\* C19: a step of a verified user.deleted event whose storage call fails
\* ends the delivery with a 200 answer of status partial_success; no
\* user.deleted delivery that verified is answered with an error response.
C19_CleanupFailureIsPartialSuccess ==
    /\ [][\A p \in Procs :
             /\ pc[p] \in {"wh_del_quota", "wh_del_chal"}
             /\ Steps(p) /\ trace'[p] = trace[p]
             => /\ pc'[p] = "done" /\ status'[p] = 200
                /\ detail'[p] = "partial_success"]_vars
    /\ [](\A p \in Procs :
             op[p] = "user_deleted" /\ pc[p] = "done" /\ auth[p] = "ok"
                => status[p] = 200)

\* The challenges delete failed after the quota record had been removed.
C19_Witness ==
    \E p \in Procs :
        /\ op[p] = "user_deleted" /\ pc[p] = "done"
        /\ detail[p] = "partial_success" /\ status[p] = 200
        /\ InTrace(p, "delete_quota")
        /\ \E c \in challenges : c.created_by = user[p]


\* C20: a generate-challenge or get-quota request for which identity
\* resolution yields no user_id makes no storage write and no generation
\* call and, once answered, is answered 401 (a storage outage aside); no
\* document is ever stored under the missing user_id.
C20_UnresolvedIdentityHasNoEffect ==
    /\ \A p \in Procs :
          op[p] \in IdentityOps /\ auth[p] = "no_user_id" =>
             /\ \A i \in DOMAIN trace[p] : trace[p][i] \notin EffectiveCalls
             /\ (pc[p] = "done" /\ detail[p] # "StorageError" => status[p] = 401)
    /\ \A r \in quotas : r.user_id # "none"
    /\ \A c \in challenges : c.created_by # "none"


\* A storage call of the step p takes has raised.
StorageCallFails(p) ==
    \/ pc[p] = "fetch" /\ FindQuota(user[p]) # NoQuota /\ quota'[p] = NoQuota
    \/ /\ Len(trace'[p]) > Len(trace[p])
       /\ trace'[p][Len(trace'[p])] \in
             {"reset_failed", "insert_failed", "decrement_failed"}
    \/ pc[p] = "create" /\ detail'[p] = "StorageError"

WorkflowCalls(p) ==
    SelectSeq(trace[p],
              LAMBDA e : e \in {"generate", "insert", "insert_failed", "decrement",
                                "decrement_none", "decrement_failed"})

\* C23: a generate-challenge run that ends in SUCCESS has made exactly one
\* generation call, one challenge insert and one decrement attempt, in that
\* order and after the quota check found quota_remaining > 0; a run that
\* ends in any other way has inserted no challenge.
C23_OneCallEachInOrder ==
    \A p \in Procs :
        op[p] = "generate" /\ pc[p] = "done" =>
           IF status[p] = 200
           THEN /\ Len(WorkflowCalls(p)) = 3
                /\ WorkflowCalls(p)[1] = "generate"
                /\ WorkflowCalls(p)[2] = "insert"
                /\ WorkflowCalls(p)[3] \in
                      {"decrement", "decrement_none", "decrement_failed"}
                /\ ~QuotaExhausted(quota[p])
           ELSE /\ ~InTrace(p, "insert")
                /\ new_challenge[p] = NoId


\* C24: one call of generate_challenge_with_ai makes at most one request to
\* the inference endpoint, exactly one once it has returned, and when the
\* request failed or its answer could not be used the value returned is the
\* fallback challenge.
C24_AtMostOneModelRequest ==
    /\ posts <= 1
    /\ (gen_pc \in {"posted", "returned", "raised"} => posts = 1)
    /\ (gen_pc = "returned" /\ TryBody(response).exc # "none" =>
           generated = Value(FallbackChallenge))

\* The endpoint answered with an HTTP error, or with text that is no JSON,
\* and the fallback has been returned after the one request.
C24_Witness ==
    /\ gen_pc = "returned"
    /\ posts = 1
    /\ \/ response.outcome = "http_error"
       \/ response.text = <<"x", "{", "b_broken">>
    /\ generated = Value(FallbackChallenge)


\* The text from the first '{' to the first '}' after it; empty when there
\* is none.
FirstObject(s) ==
    LET start == Find(s, "{")
        rest == IF start = 0 - 1 THEN <<>> ELSE SubSeq(s, start + 1, Len(s))
        close == Find(rest, "}")
    IN  IF close = 0 - 1 THEN <<>> ELSE SubSeq(rest, 1, close + 1)

\* C25: when the first JSON object of the generated text is well-formed and
\* passes the validation, generate_challenge_with_ai returns that object,
\* whatever text follows it.
C25_FirstObjectIsReturned ==
    gen_pc = "returned" /\ response.outcome \in TextOutcomes
       /\ JsonLoads(FirstObject(response.text)).exc = "none"
       /\ Validate(JsonLoads(FirstObject(response.text)).value).exc = "none"
       => generated = Value(JsonLoads(FirstObject(response.text)).value)


\* C26: a force-reset request of a resolved user whose storage call does not
\* raise leaves exactly one quota record of the user, with quota_remaining =
\* DefaultQuota and last_reset_date = now, and is answered 200, whatever the
\* record held before.
C26_ForceResetAlwaysSucceeds ==
    [][\A p \in Procs :
          pc[p] = "upsert" /\ Steps(p) /\ detail'[p] # "StorageError" =>
             /\ status'[p] = 200
             /\ Cardinality({r \in quotas' : r.user_id = user[p]}) = 1
             /\ \A r \in quotas' :
                   r.user_id = user[p] =>
                      r.quota_remaining = DefaultQuota /\ r.last_reset_date = now]_vars


\* C27: in every reachable state the created_by of every challenge is the
\* user_id of a stored quota record; the states in which a user.deleted
\* handler stands between its two deletes are left out, so that what is
\* found is an orphan that stays.
C27_EveryChallengeHasAQuotaRecord ==
    (\A p \in Procs : pc[p] # "wh_del_chal") =>
        \A c \in challenges : \E r \in quotas : r.user_id = c.created_by


\* The documents of user u, without their ids.
QuotaView(u) ==
    {<<r.quota_remaining, r.last_reset_date, r.created_at>> :
        r \in {x \in quotas : x.user_id = u}}
ChallengeView(u) ==
    {<<c.difficulty, c.kind>> : c \in {x \in challenges : x.created_by = u}}

\* Workers p and q served the same request under the same pattern of storage
\* outcomes: the caller was resolved alike, the same record was fetched or
\* created, the adapter returned the same challenge and the same storage calls
\* succeeded and failed.
SameRun(p, q) ==
    /\ auth[p] = auth[q]
    /\ difficulty[p] = difficulty[q]
    /\ (quota[p] = NoQuota) = (quota[q] = NoQuota)
    /\ quota[p].quota_remaining = quota[q].quota_remaining
    /\ quota[p].last_reset_date = quota[q].last_reset_date
    /\ challenge_data[p] = challenge_data[q]
    /\ trace[p] = trace[q]
    /\ (trace[p] = <<>> => detail[p] = detail[q])

\* C28: the copy of generate_challenge in routes/challenge.py and the copy in
\* database/models.py, given the same request, the same documents and the same
\* storage outcomes, end with the same status and leave the same documents.
C28_BothCopiesAgree ==
    \A p, q \in Procs :
        (/\ op[p] = "generate" /\ pc[p] = "done"
         /\ op[q] = "generate_alt" /\ pc[q] = "done"
         /\ SameRun(p, q)) =>
            /\ status[p] = status[q]
            /\ QuotaView(TwinUser(p)) = QuotaView(TwinUser(q))
            /\ ChallengeView(TwinUser(p)) = ChallengeView(TwinUser(q))


\* C29: a step of a generate-challenge run inserts at most a challenge whose
\* created_by is the requesting user and whose difficulty is the request's,
\* removes no document and leaves the documents of every other user as they
\* are; the response of a successful run reports the difficulty of the
\* challenge it stored, for the model's challenge and for the fallback alike.
C29_InsertedChallengeIsTheRequesters ==
    /\ [][\A p \in Procs :
             op[p] = "generate" /\ Steps(p) =>
                /\ challenges \subseteq challenges'
                /\ \A c \in challenges' \ challenges :
                      /\ c.created_by = user[p]
                      /\ c.difficulty = difficulty[p]
                      /\ c.kind = challenge_data[p]
                /\ {r \in quotas' : r.user_id # user[p]} =
                   {r \in quotas : r.user_id # user[p]}
                /\ \A r \in quotas : \E x \in quotas' : x.id = r.id]_vars
    /\ [](\A p \in Procs :
             op[p] = "generate" /\ pc[p] = "done" /\ status[p] = 200 =>
                \A c \in challenges :
                   c.id = new_challenge[p] =>
                      /\ c.difficulty = ResponseDifficulty(p)
                      /\ c.created_by = user[p])

\* A run of u2 for a hard challenge stored the fallback and answered 200 while
\* a challenge of u1 is stored.
C29_Witness ==
    \E p \in Procs :
        /\ op[p] = "generate" /\ pc[p] = "done" /\ status[p] = 200
        /\ user[p] = "u2" /\ difficulty[p] = "hard" /\ challenge_data[p] = "fallback"
        /\ \E c \in challenges :
              /\ c.id = new_challenge[p] /\ c.kind = "fallback"
              /\ c.difficulty = "hard" /\ c.created_by = "u2"
        /\ \E c \in challenges : c.created_by = "u1"

====
